---------------------------- MODULE Spec2Model ----------------------------
(***************************************************************************)
(* Asset-loading pipeline of image_manager_v2: the directory scan, the     *)
(* background loader thread, the two crossbeam channels, the per-tick      *)
(* ingestion pump and spawn step of Storage (src/src/storage.rs), and the  *)
(* frame-delay range map GifFrameDelay (src/src/renderer/gif.rs).          *)
(* The scan (sys_load_path), load_gif and GifFrameDelay are also taken on   *)
(* their own, over wider inputs than the pipeline meets: SpecScan, SpecGif *)
(* and SpecDelay.                                                          *)
(*                                                                         *)
(* Frame and loop indices are 0-based as in the Rust code; a Rust Vec v is *)
(* a TLA+ sequence, so v[i] in the code is v[i + 1] here.  A Range<u32>    *)
(* start..end is the pair <<start, end>>.  Durations are natural numbers   *)
(* (a unit of 100 ms); Duration::ZERO is 0.                                *)
(***************************************************************************)
EXTENDS Naturals, Integers, Sequences, FiniteSets, TLC

VARIABLES
    textures,      \* Storage.textures : TextureID -> TextureData
    loading,       \* Storage.loading
    to_spawn,      \* Storage.to_spawn : Vec<TextureID>
    kill_chan,     \* the (_load_kill_sender, load_kill_receiver) channel
    image_chan,    \* the (image_sender, image_receiver) channel
    workers,       \* one load_images thread per scan, in spawn order
    mainpc,        \* position of the main thread inside App::tick
    entities,      \* entities created by ImageCreator, in creation order
    image_count,   \* LayoutManager.image_count
    uploads,       \* number of GPU textures created so far (handle source)
    ingest_log,    \* history: every message the pump received, in order
    tick_start,    \* history: image_chan and loading when the tick began
    tick_popped,   \* history: messages received by the pump in this tick
    gd_delays,     \* GifFrameDelay harness: the Vec<Duration> given
    gd_map,        \* GifFrameDelay harness: GifFrameDelay.delays
    gd_frame,      \* GifFrameDelay harness: last frame index asked for
    gd_out,        \* GifFrameDelay harness: last get_delay result
    gd_pc,         \* GifFrameDelay harness: "input" | "built" | "asked"
    lg_gif,        \* load_gif harness: the GIF file given
    lg_msg,        \* load_gif harness: the message load_images built
    lg_pc,         \* load_gif harness: "input" | "done" | "panicked"
    sc_entries,    \* scan harness: the directory listing given
    sc_images,     \* scan harness: the candidate list (images_to_load)
    sc_workers,    \* scan harness: the threads the scan spawned
    sc_pc,         \* scan harness: "input" | "scanned"
    gt_gif,        \* gif tick harness: the GIF file the entity shows
    gt_entity,     \* gif tick harness: GifImage and GifTimer of the entity
    gt_delta,      \* gif tick harness: time.delta() of the last tick
    gt_ticks       \* gif tick harness: sys_tick_gifs runs so far

pipe_vars == <<textures, loading, to_spawn, kill_chan, image_chan, workers,
               mainpc, entities, image_count, uploads, ingest_log,
               tick_start, tick_popped>>
gd_vars == <<gd_delays, gd_map, gd_frame, gd_out, gd_pc>>
lg_vars == <<lg_gif, lg_msg, lg_pc>>
sc_vars == <<sc_entries, sc_images, sc_workers, sc_pc>>
gt_vars == <<gt_gif, gt_entity, gt_delta, gt_ticks>>
harness_vars == <<gd_vars, lg_vars, sc_vars, gt_vars>>
vars == <<pipe_vars, harness_vars>>

--------------------------------------------------------------------------
(* Bounds of the model *)

\* scans (sys_load_path calls) in one run of the application as written:
\* sys_load_path runs once, at setup
MaxScans == 1
\* scans in one run when the folder is loaded again (a further
\* LoadFolderEvent) while the application runs
MaxRescans == 2
\* entries in one directory listing
MaxDir == 2
\* cancellation signals sent in one run
MaxKill == 1
\* frames of a delay list given to GifFrameDelay::from_durations
MaxFrames == 4
\* largest per-frame delay given to GifFrameDelay::from_durations
MaxDelay == 2
\* frames of a GIF file given to load_gif on its own
MaxGifFrames == 70
\* entries in a directory listing given to the scan on its own
MaxEntries == 3
\* frames of a GIF whose entity is ticked on its own
MaxTickFrames == 3
\* runs of sys_tick_gifs in one run of the tick harness
MaxTicks == 4
\* largest time.delta() of a tick, in the unit of the delays
MaxDelta == 2

--------------------------------------------------------------------------
(* Sizing limits, renderer/gif.rs *)

MAX_TEXTURE_WIDTH == 8192
MAX_TEXTURE_HEIGHT == 8192
MAX_USABLE_IMAGE_WIDTH == 1920 \div 2
MAX_USABLE_IMAGE_HEIGHT == 1080

--------------------------------------------------------------------------
(* GifFrameDelay: HashMap<Range<u32>, Duration> as a function on pairs *)

EmptyMap == [k \in {} |-> 0]

\* HashMap::insert: the value under an existing key is replaced
HashMapInsert(map, key, value) ==
    [k \in (DOMAIN map) \cup {key} |-> IF k = key THEN value ELSE map[k]]

\* mutant of RangeContains: the end of the range counts as inside
RangeContains_Inclusive(range, frame) == range[1] <= frame /\ frame <= range[2]

\* Range<u32>::contains
RangeContains(range, frame) == range[1] <= frame /\ frame < range[2]

\* mutant of FromDurationsWalk: every frame closes the running range,
\* whether or not its delay differs from the previous one
RECURSIVE FromDurationsWalk_NoCoalesce(_, _, _, _, _)
FromDurationsWalk_NoCoalesce(delays, index, start_index, prev, delays_final) ==
    IF index >= Len(delays)
    THEN [delays_final |-> delays_final, start_index |-> start_index,
          prev |-> prev]
    ELSE FromDurationsWalk_NoCoalesce(delays, index + 1, index,
                                      delays[index + 1],
                                      HashMapInsert(delays_final,
                                                    <<start_index, index>>,
                                                    prev))

\* the body of the for_each closure of from_durations, from index on;
\* yields the three captured variables after the last element
RECURSIVE FromDurationsWalk(_, _, _, _, _)
FromDurationsWalk(delays, index, start_index, prev, delays_final) ==
    IF index >= Len(delays)
    THEN [delays_final |-> delays_final, start_index |-> start_index,
          prev |-> prev]
    ELSE IF delays[index + 1] = prev
         THEN FromDurationsWalk(delays, index + 1, start_index, prev,
                                delays_final)
         ELSE FromDurationsWalk(delays, index + 1, index,
                                delays[index + 1],
                                HashMapInsert(delays_final,
                                              <<start_index, index>>, prev))

\* mutant of FromDurations: the last range maps to the first delay
FromDurations_FirstDelay(delays) ==
    IF delays = <<>>
    THEN EmptyMap
    ELSE LET walk == FromDurationsWalk(delays, 1, 0, delays[1], EmptyMap)
             final_index == Len(delays)
         IN  HashMapInsert(walk.delays_final,
                           <<walk.start_index, final_index>>, delays[1])

\* mutant of FromDurations: the last range is not inserted
FromDurations_NoFinalRange(delays) ==
    IF delays = <<>>
    THEN EmptyMap
    ELSE FromDurationsWalk(delays, 1, 0, delays[1], EmptyMap).delays_final

FromDurations(delays) ==
    IF delays = <<>>
    THEN EmptyMap
    ELSE LET walk == FromDurationsWalk(delays, 1, 0, delays[1], EmptyMap)
             final_index == Len(delays)
         IN  HashMapInsert(walk.delays_final,
                           <<walk.start_index, final_index>>, walk.prev)

\* get_delay: `find` returns the first entry, in the map's unspecified
\* iteration order, whose range contains the frame; every such entry is a
\* possible result.  Without one the result is Duration::ZERO.
GetDelay(map, frame) ==
    LET hits == {k \in DOMAIN map : RangeContains(k, frame)}
    IN  IF hits = {} THEN {0} ELSE {map[k] : k \in hits}

--------------------------------------------------------------------------
(* load_gif: frame size, grid and message, storage.rs *)

Min(a, b) == IF a <= b THEN a ELSE b

\* (num / den).round() for non-negative operands: half rounds away from 0
RoundDiv(num, den) == (2 * num + den) \div (2 * den)

\* "Shrink gifs if they are larger than they need to be": both sides are
\* scaled by the smaller of the two ratios new/original
FrameSize(original_frame_width, original_frame_height) ==
    LET new_width  == Min(original_frame_width, MAX_USABLE_IMAGE_WIDTH)
        new_height == Min(original_frame_height, MAX_USABLE_IMAGE_HEIGHT)
        \* wratio <= hratio, compared without division
        w_smaller  == new_width * original_frame_height
                          <= new_height * original_frame_width
        num == IF w_smaller THEN new_width ELSE new_height
        den == IF w_smaller THEN original_frame_width
                            ELSE original_frame_height
    IN  <<RoundDiv(original_frame_width * num, den),
          RoundDiv(original_frame_height * num, den)>>

FramesPerRow(frame_width) == MAX_TEXTURE_WIDTH \div frame_width

\* mutant of TotalRows: the quotient without the extra row
TotalRows_Floor(frame_count, frames_per_row) == frame_count \div frames_per_row

TotalRows(frame_count, frames_per_row) == frame_count \div frames_per_row + 1

\* the grid cell, <<column, row>>, whose sub_image frame `index` is copied
\* into: x = index % frames_per_row * frame_width,
\* y = index / frames_per_row * frame_height
CellOf(index, frames_per_row) ==
    <<index % frames_per_row, index \div frames_per_row>>

\* mutant of AtlasTooLarge: the atlas height is never checked
AtlasTooLarge_Never(frame_height, total_rows) == FALSE

\* the match on texture_height > MAX_TEXTURE_HEIGHT
AtlasTooLarge(frame_height, total_rows) ==
    frame_height * total_rows > MAX_TEXTURE_HEIGHT

\* the delay stored by the single-frame fallback: Duration::from_secs(99999)
FallbackDelay == 999990

\* A GIF file is [decodable, width, height, frames]: frames is the list of
\* the frames' delays, width and height the size of frame 0.
\* load_gif returns None, or panics, when the file cannot be read as a GIF
\* or has no frame, and panics on a division by zero when the scaled frame
\* width rounds to 0; load_images unwraps the result.
LoadGifPanics(gif) ==
    \/ ~gif.decodable
    \/ gif.frames = <<>>
    \/ FrameSize(gif.width, gif.height)[1] = 0

\* mutant of LoadGif: the atlas grid is kept whatever its height
LoadGif_NoFallback(path, scan, gif) ==
    LET frame_size     == FrameSize(gif.width, gif.height)
        frames_per_row == FramesPerRow(frame_size[1])
    IN  [type |-> "Gif", path |-> path, scan |-> scan,
         total_frames |-> Len(gif.frames),
         frames_per_row |-> frames_per_row,
         total_rows |-> TotalRows(Len(gif.frames), frames_per_row),
         frame_size |-> frame_size,
         frame_delay |-> gif.frames,
         decoded_frames |-> Len(gif.frames)]

\* mutant of LoadGif: only the delay of frame 0 is kept
LoadGif_OneDelay(path, scan, gif) ==
    LET frame_size     == FrameSize(gif.width, gif.height)
        frames_per_row == FramesPerRow(frame_size[1])
    IN  [type |-> "Gif", path |-> path, scan |-> scan,
         total_frames |-> Len(gif.frames),
         frames_per_row |-> frames_per_row,
         total_rows |-> TotalRows(Len(gif.frames), frames_per_row),
         frame_size |-> frame_size,
         frame_delay |-> <<gif.frames[1]>>,
         decoded_frames |-> Len(gif.frames)]

\* decoded_frames is history: frames.len() of the decoded file
LoadGif(path, scan, gif) ==
    LET frame_size     == FrameSize(gif.width, gif.height)
        frames_per_row == FramesPerRow(frame_size[1])
        total_rows     == TotalRows(Len(gif.frames), frames_per_row)
    IN  IF AtlasTooLarge(frame_size[2], total_rows)
        THEN [type |-> "Gif", path |-> path, scan |-> scan,
              total_frames |-> 1, frames_per_row |-> 1, total_rows |-> 1,
              frame_size |-> frame_size,
              frame_delay |-> <<FallbackDelay>>,
              decoded_frames |-> Len(gif.frames)]
        ELSE [type |-> "Gif", path |-> path, scan |-> scan,
              total_frames |-> Len(gif.frames),
              frames_per_row |-> frames_per_row,
              total_rows |-> total_rows,
              frame_size |-> frame_size,
              frame_delay |-> gif.frames,
              decoded_frames |-> Len(gif.frames)]

\* ImageChannel::Image; frame_size holds image.dimensions()
ImageMsg(path, scan, dims) ==
    [type |-> "Image", path |-> path, scan |-> scan,
     total_frames |-> 0, frames_per_row |-> 0, total_rows |-> 0,
     frame_size |-> dims, frame_delay |-> <<>>, decoded_frames |-> 0]

\* ImageChannel::Finished
FinishedMsg(scan) ==
    [type |-> "Finished", path |-> 0, scan |-> scan,
     total_frames |-> 0, frames_per_row |-> 0, total_rows |-> 0,
     frame_size |-> <<0, 0>>, frame_delay |-> <<>>, decoded_frames |-> 0]

NoMsg == FinishedMsg(0)

--------------------------------------------------------------------------
(* The environment: directory contents and file contents *)

\* entries a listed directory may hold: [path, ext, is_file]; ext "" is a
\* path without extension
DirEntries ==
    { [path |-> 1, ext |-> "png", is_file |-> TRUE],
      [path |-> 2, ext |-> "gif", is_file |-> TRUE],
      [path |-> 3, ext |-> "txt", is_file |-> TRUE] }

\* what read_dir may return: each entry once, in any order
DirListings ==
    UNION { {s \in [1..n -> DirEntries] :
                \A i, j \in 1..n : i # j => s[i] # s[j]} : n \in 0..MaxDir }

\* dimensions of a decoded (and, if too large, resized) static image
ImageDims == { <<100, 100>> }

\* GIF files the worker may meet: a small animation whose atlas fits, one
\* whose atlas would be taller than the texture limit, and a broken file
GifFiles ==
    { [decodable |-> TRUE, width |-> 50, height |-> 50,
       frames |-> <<1, 1, 2>>],
      [decodable |-> TRUE, width |-> 960, height |-> 1080,
       frames |-> [i \in 1..64 |-> 1]],
      [decodable |-> FALSE, width |-> 0, height |-> 0, frames |-> <<>>] }

--------------------------------------------------------------------------
(* Storage and its channels *)

\* path.hash(&mut hasher); hasher.finish(): a fixed function of the path,
\* taken to be free of collisions on the paths of DirEntries
PathHash(path) == (path * 37 + 11) % 101

\* mutant of KeepEntry: the extension is compared ignoring case
KeepEntry_AnyCase(entry) == entry.is_file /\ entry.ext \in {"jpg", "png", "gif", "JPG"}

\* the filter_map closure of sys_load_path
KeepEntry(entry) ==
    /\ entry.is_file
    /\ entry.ext \in {"jpg", "png", "gif"}

ImagesToLoad(entries) == SelectSeq(entries, KeepEntry)

\* crossbeam unbounded channel: send appends, try_recv takes the oldest
\* mutant of ChanSend: the newest message is received first
ChanSend_Front(chan, msg) == <<msg>> \o chan

\* mutant of ChanSend: the send discards what was queued
ChanSend_Replaces(chan, msg) == <<msg>>

ChanSend(chan, msg) == Append(chan, msg)
ChanFront(chan) == Head(chan)
ChanRest(chan) == Tail(chan)

\* mutant of RecvEmpty: the loop stops with one message left
RecvEmpty_OneLeft(chan) == Len(chan) <= 1

\* image_receiver.try_recv() yields TryRecvError::Empty
RecvEmpty(chan) == chan = <<>>

\* mutant of KillPending: the signal is never seen
KillPending_Never(chan) == FALSE

\* load_kill_receiver.try_recv().is_ok()
KillPending(chan) == chan # <<>>

\* mutant of NewWorker: the thread starts at its second candidate
NewWorker_SkipsFirst(images) == [images |-> SubSeq(images, 2, Len(images)), pc |-> "loop", data |-> NoMsg, sent |-> <<>>, listed |-> images, failed |-> FALSE]

\* a load_images thread at its start; listed (the candidate list it was
\* given), sent (the messages it has sent) and failed (an open or decode
\* of one of its files failed) are history
NewWorker(images) ==
    [images |-> images, pc |-> "loop", data |-> NoMsg, sent |-> <<>>,
     listed |-> images, failed |-> FALSE]

\* mutant of UnwrapFailed: the file is skipped and the loop goes on
UnwrapFailed_Skips(worker, rest) == [worker EXCEPT !.images = rest, !.failed = TRUE]

\* mutant of SpawnLoadImages: no thread for an empty candidate list
SpawnLoadImages_IfAny(threads, images) == IF images = <<>> THEN threads ELSE Append(threads, NewWorker(images))

\* std::thread::spawn(move || load_images(images_to_load, ..)), whatever
\* the candidate list holds
SpawnLoadImages(threads, images) == Append(threads, NewWorker(images))

\* image::open(..).unwrap(), reader.decode().unwrap() and
\* load_gif(path).unwrap() on a failure: the thread panics
UnwrapFailed(worker, rest) ==
    [worker EXCEPT !.images = rest, !.pc = "panicked", !.failed = TRUE]

NoTick == [chan |-> <<>>, loading |-> FALSE]

PipeInit ==
    /\ textures = EmptyMap
    /\ loading = FALSE
    /\ to_spawn = <<>>
    /\ kill_chan = <<>>
    /\ image_chan = <<>>
    /\ workers = <<>>
    /\ mainpc = "idle"
    /\ entities = <<>>
    /\ image_count = 0
    /\ uploads = 0
    /\ ingest_log = <<>>
    /\ tick_start = NoTick
    /\ tick_popped = <<>>

GdIdle ==
    /\ gd_delays = <<>>
    /\ gd_map = EmptyMap
    /\ gd_frame = 0
    /\ gd_out = 0
    /\ gd_pc = "input"

LgIdle ==
    /\ lg_gif = [decodable |-> FALSE, width |-> 0, height |-> 0,
                 frames |-> <<>>]
    /\ lg_msg = NoMsg
    /\ lg_pc = "input"

ScIdle ==
    /\ sc_entries = <<>>
    /\ sc_images = <<>>
    /\ sc_workers = <<>>
    /\ sc_pc = "input"

GtIdle ==
    /\ gt_gif = [decodable |-> FALSE, width |-> 0, height |-> 0,
                 frames |-> <<>>]
    /\ gt_entity = [frame |-> 0, total_frames |-> 0, acc |-> 0,
                    delay |-> EmptyMap]
    /\ gt_delta = 0
    /\ gt_ticks = 0

Init == PipeInit /\ GdIdle /\ LgIdle /\ ScIdle /\ GtIdle

--------------------------------------------------------------------------
(* Main thread, between ticks: scan start and cancellation *)

\* sys_load_path: list the directory, set loading, spawn load_images;
\* at most max_scans times in a run
LoadPath(max_scans) ==
    /\ mainpc = "idle"
    /\ Len(workers) < max_scans
    /\ \E entries \in DirListings :
           workers' = SpawnLoadImages(workers, ImagesToLoad(entries))
    /\ loading' = TRUE
    /\ UNCHANGED <<textures, to_spawn, kill_chan, image_chan, mainpc,
                   entities, image_count, uploads, ingest_log, tick_start,
                   tick_popped, harness_vars>>

\* Storage::_stop_loading
StopLoading ==
    /\ mainpc = "idle"
    /\ Len(kill_chan) < MaxKill
    /\ kill_chan' = ChanSend(kill_chan, TRUE)
    /\ loading' = FALSE
    /\ UNCHANGED <<textures, to_spawn, image_chan, workers, mainpc,
                   entities, image_count, uploads, ingest_log, tick_start,
                   tick_popped, harness_vars>>

--------------------------------------------------------------------------
(* The worker thread: load_images *)

\* what the worker positions may be
Running(w) == workers[w].pc \in {"loop", "poll", "send"}

\* top of the for loop with a candidate left: decode it.  The contents of
\* the file are the environment's choice.  A failed open or decode, and a
\* load_gif that yields None, panic in an unwrap and end the thread.
WorkerLoad(w) ==
    /\ workers[w].pc = "loop"
    /\ workers[w].images # <<>>
    /\ LET entry == Head(workers[w].images)
           rest  == Tail(workers[w].images)
       IN  \/ /\ entry.ext \in {"jpg", "png"}
              /\ \/ \E dims \in ImageDims :
                       workers' = [workers EXCEPT
                           ![w].images = rest,
                           ![w].data = ImageMsg(entry.path, w, dims),
                           ![w].pc = "poll"]
                 \/ workers' = [workers EXCEPT
                           ![w] = UnwrapFailed(workers[w], rest)]
           \/ /\ entry.ext = "gif"
              /\ \E gif \in GifFiles :
                     IF LoadGifPanics(gif)
                     THEN workers' = [workers EXCEPT
                              ![w] = UnwrapFailed(workers[w], rest)]
                     ELSE workers' = [workers EXCEPT
                              ![w].images = rest,
                              ![w].data = LoadGif(entry.path, w, gif),
                              ![w].pc = "poll"]
           \/ /\ entry.ext \notin {"jpg", "png", "gif"}
              /\ workers' = [workers EXCEPT ![w].images = rest]
    /\ UNCHANGED <<textures, loading, to_spawn, kill_chan, image_chan,
                   mainpc, entities, image_count, uploads, ingest_log,
                   tick_start, tick_popped, harness_vars>>

\* "Check if we should still be loading images before posting a new one"
WorkerPoll(w) ==
    /\ workers[w].pc = "poll"
    /\ IF KillPending(kill_chan)
       THEN /\ kill_chan' = ChanRest(kill_chan)
            /\ workers' = [workers EXCEPT ![w].pc = "cancelled"]
       ELSE /\ kill_chan' = kill_chan
            /\ workers' = [workers EXCEPT ![w].pc = "send"]
    /\ UNCHANGED <<textures, loading, to_spawn, image_chan, mainpc,
                   entities, image_count, uploads, ingest_log, tick_start,
                   tick_popped, harness_vars>>

\* image_sender.send(data)
WorkerSend(w) ==
    /\ workers[w].pc = "send"
    /\ image_chan' = ChanSend(image_chan, workers[w].data)
    /\ workers' = [workers EXCEPT
                      ![w].sent = Append(@, workers[w].data),
                      ![w].data = NoMsg,
                      ![w].pc = "loop"]
    /\ UNCHANGED <<textures, loading, to_spawn, kill_chan, mainpc,
                   entities, image_count, uploads, ingest_log, tick_start,
                   tick_popped, harness_vars>>

\* after the loop: image_sender.send(ImageChannel::Finished)
WorkerFinished(w) ==
    /\ workers[w].pc = "loop"
    /\ workers[w].images = <<>>
    /\ image_chan' = ChanSend(image_chan, FinishedMsg(w))
    /\ workers' = [workers EXCEPT
                      ![w].sent = Append(@, FinishedMsg(w)),
                      ![w].pc = "done"]
    /\ UNCHANGED <<textures, loading, to_spawn, kill_chan, mainpc,
                   entities, image_count, uploads, ingest_log, tick_start,
                   tick_popped, harness_vars>>

--------------------------------------------------------------------------
(* The main thread: one tick *)

\* mutant of CheckLoading: the pump is never due
CheckLoading_Never == FALSE

\* sys_check_loading
CheckLoading == loading

\* sys_check_pending
CheckPending == to_spawn # <<>>

\* start of App::update: sys_process_new_images runs if sys_check_loading.
\* (App::update runs the spawn step under the same test, StoragePlugin
\* under sys_check_pending; to_spawn is empty between ticks, so the two
\* agree, and the spawn step is modelled with sys_check_pending.)
TickBegin ==
    /\ mainpc = "idle"
    /\ mainpc' = IF CheckLoading THEN "process" ELSE "spawn"
    /\ tick_start' = [chan |-> image_chan, loading |-> loading]
    /\ UNCHANGED <<textures, loading, to_spawn, kill_chan, image_chan,
                   workers, entities, image_count, uploads, ingest_log,
                   tick_popped, harness_vars>>

\* TextureData built from a message; the texture is a new GPU resource
NewTextureData(msg, handle) ==
    [texture |-> handle,
     kind |-> IF msg.type = "Gif" THEN "Gif" ELSE "Texture",
     path |-> msg.path,
     resolution |-> msg.frame_size,
     total_frames |-> msg.total_frames,
     frames_per_row |-> msg.frames_per_row,
     frames |-> msg.frame_delay]

\* mutant of TexturesInsert: the entry is stored under another key
TexturesInsert_OtherKey(map, key, texture_data) == HashMapInsert(map, key + 1, texture_data)

\* mutant of TexturesInsert: the entry is dropped
TexturesInsert_Drops(map, key, texture_data) == map

\* storage.textures.insert(key, texture_data)
TexturesInsert(map, key, texture_data) ==
    HashMapInsert(map, key, texture_data)

\* mutant of LoadingAfterFinished: Finished leaves the flag set
LoadingAfterFinished_Set == TRUE

\* ImageChannel::Finished => storage.loading = false
LoadingAfterFinished == FALSE

\* the live senders of the forward channel: Storage.image_sender, which
\* Storage keeps for its whole life, and the clone each running thread owns
Senders == 1 + Cardinality({w \in 1..Len(workers) : Running(w)})

\* try_recv yields TryRecvError::Disconnected: nothing queued, no sender
RecvDisconnected(chan) == chan = <<>> /\ Senders = 0

\* one iteration of the loop of sys_process_new_images
ProcessNewImages ==
    /\ mainpc = "process"
    /\ IF RecvEmpty(image_chan)
       THEN \* TryRecvError::Empty => break; any other error => panic!
            /\ mainpc' = IF RecvDisconnected(image_chan)
                         THEN "panicked" ELSE "spawn"
            /\ UNCHANGED <<textures, loading, to_spawn, image_chan, uploads,
                           ingest_log, tick_popped>>
       ELSE LET msg == ChanFront(image_chan)
                key == PathHash(msg.path)
            IN  /\ image_chan' = ChanRest(image_chan)
                /\ ingest_log' = Append(ingest_log, msg)
                /\ tick_popped' = Append(tick_popped, msg)
                /\ mainpc' = mainpc
                /\ IF msg.type = "Finished"
                   THEN /\ loading' = LoadingAfterFinished
                        /\ UNCHANGED <<textures, to_spawn, uploads>>
                   ELSE /\ uploads' = uploads + 1
                        /\ textures' = TexturesInsert(textures, key,
                               NewTextureData(msg, uploads + 1))
                        /\ to_spawn' = Append(to_spawn, key)
                        /\ loading' = loading
    /\ UNCHANGED <<kill_chan, workers, entities, image_count, tick_start,
                   harness_vars>>

\* the entity spawn_image / spawn_gif creates for an identifier, with the
\* ImageIndex added to it
NewEntity(id, index) ==
    LET texture == textures[id]
    IN  IF texture.kind = "Gif"
        THEN [id |-> id, index |-> index, kind |-> "GifImage", frame |-> 0,
              total_frames |-> texture.total_frames,
              frames_per_row |-> texture.frames_per_row,
              delay |-> FromDurations(texture.frames)]
        ELSE [id |-> id, index |-> index, kind |-> "StandardImage",
              frame |-> 0, total_frames |-> 0, frames_per_row |-> 0,
              delay |-> EmptyMap]

\* mutant of SpawnAll: layout.next() is taken once for the whole queue
SpawnAll_SameIndex(ids, count) == [i \in 1..Len(ids) |-> NewEntity(ids[i], count)]

\* mutant of SpawnAll: the last pending identifier gets no entity
SpawnAll_SkipsLast(ids, count) ==
    [i \in 1..(Len(ids) - 1) |-> NewEntity(ids[i], count + i - 1)]

\* the for_each of sys_spawn_new_images: one entity per element of
\* to_spawn, in order, each taking layout.next() as its index
SpawnAll(ids, count) ==
    [i \in 1..Len(ids) |-> NewEntity(ids[i], count + i - 1)]

\* storage.to_spawn.clear()
ToSpawnCleared == <<>>

\* sys_spawn_new_images, run if sys_check_pending
SpawnNewImages ==
    /\ mainpc = "spawn"
    /\ mainpc' = "render"
    /\ IF CheckPending
       THEN /\ \A i \in 1..Len(to_spawn) : to_spawn[i] \in DOMAIN textures
            /\ entities' = entities \o SpawnAll(to_spawn, image_count)
            /\ image_count' = image_count + Len(to_spawn)
            /\ to_spawn' = ToSpawnCleared
       ELSE UNCHANGED <<entities, image_count, to_spawn>>
    /\ UNCHANGED <<textures, loading, kill_chan, image_chan, workers,
                   uploads, ingest_log, tick_start, tick_popped, harness_vars>>

\* App::render, the end of the tick
Render ==
    /\ mainpc = "render"
    /\ mainpc' = "idle"
    /\ tick_start' = NoTick
    /\ tick_popped' = <<>>
    /\ UNCHANGED <<textures, loading, to_spawn, kill_chan, image_chan,
                   workers, entities, image_count, uploads, ingest_log,
                   harness_vars>>

\* what the application as written does: nothing in it calls
\* Storage::_stop_loading
AppStep(max_scans) ==
    \/ LoadPath(max_scans)
    \/ \E w \in DOMAIN workers : WorkerLoad(w)
    \/ \E w \in DOMAIN workers : WorkerPoll(w)
    \/ \E w \in DOMAIN workers : WorkerSend(w)
    \/ \E w \in DOMAIN workers : WorkerFinished(w)
    \/ TickBegin
    \/ ProcessNewImages
    \/ SpawnNewImages
    \/ Render

\* the application, and a caller of the cancellation operation of Storage
Step(max_scans) ==
    \/ AppStep(max_scans)
    \/ StopLoading

\* the application as written: one scan
Next == Step(MaxScans)

Spec == Init /\ [][Next]_vars

\* the application with the folder loaded again while it runs
NextRescan == Step(MaxRescans)

SpecRescan == Init /\ [][NextRescan]_vars

\* the steps of the load_images thread of scan w
WorkerStep(w) ==
    /\ w \in DOMAIN workers
    /\ WorkerLoad(w) \/ WorkerPoll(w) \/ WorkerSend(w) \/ WorkerFinished(w)

\* the steps of App::tick
TickStep == TickBegin \/ ProcessNewImages \/ SpawnNewImages \/ Render

NextFair == AppStep(MaxScans)

\* The application as written, with its scheduling: a spawned thread that
\* can step is given the processor in the end, and the event loop asks
\* for the next redraw after every tick.  Nothing makes a scan happen.
SpecFair ==
    /\ Init
    /\ [][NextFair]_vars
    /\ \A w \in 1..MaxScans : WF_vars(WorkerStep(w))
    /\ WF_vars(TickStep)

--------------------------------------------------------------------------
(* GifFrameDelay on its own: build a map from a delay list, then ask it *)

DelaySeqs == UNION { [1..n -> 0..MaxDelay] : n \in 0..MaxFrames }

\* the delays of a 10-frame GIF that alternates 100 ms, 100 ms, 200 ms,
\* 200 ms, ...
AlternatingDelays == <<1, 1, 2, 2, 1, 1, 2, 2, 1, 1>>

DelayInit ==
    /\ PipeInit
    /\ gd_delays \in DelaySeqs \cup {AlternatingDelays}
    /\ gd_map = EmptyMap
    /\ gd_frame = 0
    /\ gd_out = 0
    /\ gd_pc = "input"
    /\ LgIdle
    /\ ScIdle
    /\ GtIdle

\* GifFrameDelay::from_durations(&gd_delays)
BuildFromDurations ==
    /\ gd_pc = "input"
    /\ gd_map' = FromDurations(gd_delays)
    /\ gd_pc' = "built"
    /\ UNCHANGED <<gd_delays, gd_frame, gd_out, pipe_vars, lg_vars, sc_vars, gt_vars>>

\* get_delay(&frame), for frames inside and just outside the list
AskGetDelay ==
    /\ gd_pc \in {"built", "asked"}
    /\ \E frame \in 0..(MaxFrames + 1) :
           /\ gd_frame' = frame
           /\ gd_out' \in GetDelay(gd_map, frame)
    /\ gd_pc' = "asked"
    /\ UNCHANGED <<gd_delays, gd_map, pipe_vars, lg_vars, sc_vars, gt_vars>>

DelayNext == BuildFromDurations \/ AskGetDelay

SpecDelay == DelayInit /\ [][DelayNext]_vars

--------------------------------------------------------------------------
(* load_gif on its own: one GIF file in, the worker's message out *)

\* frame sizes around the usable size and the texture limit
GifWidths == {1, 2, 50, 512, 959, 960, 961, 1920, 5000}

GifHeights == {1, 50, 540, 1080, 1081, 2160, 5000}

\* decodable files of every size and frame count; the delays come in runs
\* of two equal values, 0 among them
GifInputs ==
    { [decodable |-> TRUE, width |-> w, height |-> h,
       frames |-> [i \in 1..n |-> (i \div 2) % (MaxDelay + 1)]] :
          w \in GifWidths, h \in GifHeights, n \in 0..MaxGifFrames }

GifInit ==
    /\ PipeInit
    /\ GdIdle
    /\ ScIdle
    /\ GtIdle
    /\ lg_gif \in GifInputs
    /\ lg_msg = NoMsg
    /\ lg_pc = "input"

\* the Some("gif") arm of load_images: load_gif(path).unwrap()
ApplyLoadGif ==
    /\ lg_pc = "input"
    /\ IF LoadGifPanics(lg_gif)
       THEN /\ lg_pc' = "panicked"
            /\ UNCHANGED lg_msg
       ELSE /\ lg_pc' = "done"
            /\ lg_msg' = LoadGif(1, 1, lg_gif)
    /\ UNCHANGED <<lg_gif, pipe_vars, gd_vars, sc_vars, gt_vars>>

GifNext == ApplyLoadGif

SpecGif == GifInit /\ [][GifNext]_vars

--------------------------------------------------------------------------
(* The directory scan on its own: one listing in, candidates and thread out *)

\* children a scanned directory may hold: supported and unsupported
\* extensions, an upper-case one, none at all, and a sub-directory whose
\* name ends in .png
ScanEntries ==
    { [path |-> 1, ext |-> "png",  is_file |-> TRUE],
      [path |-> 2, ext |-> "gif",  is_file |-> TRUE],
      [path |-> 3, ext |-> "txt",  is_file |-> TRUE],
      [path |-> 4, ext |-> "jpg",  is_file |-> TRUE],
      [path |-> 5, ext |-> "JPG",  is_file |-> TRUE],
      [path |-> 6, ext |-> "",     is_file |-> TRUE],
      [path |-> 7, ext |-> "png",  is_file |-> FALSE],
      [path |-> 8, ext |-> "jpeg", is_file |-> TRUE] }

\* what read_dir may return: each child once, in any order
ScanListings ==
    UNION { {s \in [1..n -> ScanEntries] :
                \A i, j \in 1..n : i # j => s[i] # s[j]} :
            n \in 0..MaxEntries }

ScanInit ==
    /\ PipeInit
    /\ GdIdle
    /\ LgIdle
    /\ GtIdle
    /\ sc_entries \in ScanListings
    /\ sc_images = <<>>
    /\ sc_workers = <<>>
    /\ sc_pc = "input"

\* sys_load_path on the listing: filter, then spawn
ScanLoadPath ==
    /\ sc_pc = "input"
    /\ sc_images' = ImagesToLoad(sc_entries)
    /\ sc_workers' = SpawnLoadImages(sc_workers, ImagesToLoad(sc_entries))
    /\ sc_pc' = "scanned"
    /\ UNCHANGED <<sc_entries, pipe_vars, gd_vars, lg_vars, gt_vars>>

ScanNext == ScanLoadPath

SpecScan == ScanInit /\ [][ScanNext]_vars

--------------------------------------------------------------------------
(* sys_tick_gifs on its own: one GIF entity, ticked with any time deltas *)

\* GIF files whose entity is ticked: every delay list of 1..MaxTickFrames
\* frames, and the file whose atlas is too tall (single-frame fallback)
TickGifs ==
    { [decodable |-> TRUE, width |-> 50, height |-> 50, frames |-> d] :
          d \in UNION { [1..n -> 0..MaxDelay] : n \in 1..MaxTickFrames } }
    \cup { [decodable |-> TRUE, width |-> 960, height |-> 1080,
            frames |-> [i \in 1..64 |-> 1]] }

\* the GifImage and GifTimer sys_spawn_new_images and spawn_gif make from
\* the cache entry of a Gif message
GifEntityOf(msg) ==
    [frame |-> 0, total_frames |-> msg.total_frames, acc |-> 0,
     delay |-> FromDurations(msg.frame_delay)]

TickInit ==
    /\ PipeInit
    /\ GdIdle
    /\ LgIdle
    /\ ScIdle
    /\ gt_gif \in TickGifs
    /\ gt_entity = GifEntityOf(LoadGif(1, 1, gt_gif))
    /\ gt_delta = 0
    /\ gt_ticks = 0

\* mutant of NextFrame: the index does not wrap
NextFrame_NoWrap(frame, total_frames) == frame + 1

\* gif.frame = gif.frame + 1; if gif.frame >= gif.total_frames { 0 }
NextFrame(frame, total_frames) ==
    IF frame + 1 >= total_frames THEN 0 ELSE frame + 1

\* the body of the for_each of sys_tick_gifs for one entity
TickGif(entity, delta, delay) ==
    LET acc == entity.acc + delta
    IN  IF acc > delay
        THEN [entity EXCEPT !.acc = 0,
                            !.frame = NextFrame(entity.frame,
                                                entity.total_frames)]
        ELSE [entity EXCEPT !.acc = acc]

\* sys_tick_gifs, with the time.delta() of this tick
SysTickGifs ==
    /\ gt_ticks < MaxTicks
    /\ \E delta \in 0..MaxDelta :
           /\ gt_delta' = delta
           /\ \E delay \in GetDelay(gt_entity.delay, gt_entity.frame) :
                  gt_entity' = TickGif(gt_entity, delta, delay)
    /\ gt_ticks' = gt_ticks + 1
    /\ UNCHANGED <<gt_gif, pipe_vars, gd_vars, lg_vars, sc_vars>>

TickNext == SysTickGifs

SpecTick == TickInit /\ [][TickNext]_vars

--------------------------------------------------------------------------
(* Helpers of the properties *)

IsPrefix(a, b) ==
    /\ Len(a) <= Len(b)
    /\ \A i \in 1..Len(a) : a[i] = b[i]

IsAsset(msg) == msg.type \in {"Image", "Gif"}

\* the messages of one scan in a log, in log order
OfScan(log, w) == SelectSeq(log, LAMBDA m : m.scan = w)

\* the identifiers the pump computes for the assets of a log, in log order
AssetIds(log) ==
    LET assets == SelectSeq(log, IsAsset)
    IN  [i \in 1..Len(assets) |-> PathHash(assets[i].path)]

\* where a path stands in a candidate list
PosIn(images, path) ==
    CHOOSE i \in 1..Len(images) : images[i].path = path

\* positions of the Finished messages among those a worker sent
FinishedAt(w) ==
    {i \in 1..Len(workers[w].sent) : workers[w].sent[i].type = "Finished"}

\* the pump has received the Finished message of scan w
FinishedDrained(w) ==
    \E i \in 1..Len(ingest_log) :
        ingest_log[i].type = "Finished" /\ ingest_log[i].scan = w

\* this step is the pump receiving a Finished message
DrainsFinished ==
    /\ Len(ingest_log') = Len(ingest_log) + 1
    /\ ingest_log'[Len(ingest_log')].type = "Finished"

--------------------------------------------------------------------------
(* Properties of the pipeline, checked under Spec; C6 under SpecRescan *)

\* C1: every worker whose thread has ended without being cancelled has sent
\* exactly one Finished, as its last message; no worker sends more than one
\* Finished or sends anything after it; a cancelled worker has sent none.
C1_ExactlyOneFinished ==
    \A w \in DOMAIN workers :
        /\ Cardinality(FinishedAt(w)) <= 1
        /\ \A i \in FinishedAt(w) : i = Len(workers[w].sent)
        /\ workers[w].pc = "cancelled" => FinishedAt(w) = {}
        /\ (~Running(w) /\ workers[w].pc # "cancelled")
               => Cardinality(FinishedAt(w)) = 1

\* C2, as claimed: for every scan that was started, loading is TRUE as long
\* as the pump has not received that scan's Finished message.
C2_LoadingUntilOwnFinished ==
    \A w \in DOMAIN workers : ~FinishedDrained(w) => loading

\* C2, amended: sys_load_path sets loading; the only steps that clear it
\* are the pump receiving a Finished message (of whichever scan) and
\* _stop_loading; the pump receiving a Finished message always clears it.
C2_LoadingClearedOnlyBy ==
    [][ /\ Len(workers') > Len(workers) => loading'
        /\ (loading /\ ~loading')
               => (DrainsFinished \/ Len(kill_chan') > Len(kill_chan))
        /\ DrainsFinished => ~loading' ]_vars

\* a scan was started, its Finished message was received, loading is clear
C2_Witness ==
    /\ \E w \in DOMAIN workers : FinishedDrained(w)
    /\ ~loading
    /\ kill_chan = <<>>

\* C3: a result is sent only after a poll that found no cancellation
\* signal; a worker that polls while a signal is pending takes the signal
\* and returns without sending the result it holds, and a returned worker
\* never sends anything afterwards, neither a result nor Finished.
C3_CancelledWorkerSendsNothing ==
    [][ \A w \in DOMAIN workers :
          /\ (workers'[w].pc = "send" /\ workers[w].pc # "send")
                 => (workers[w].pc = "poll" /\ kill_chan = <<>>)
          /\ (workers[w].pc = "poll" /\ kill_chan # <<>>
                  /\ workers'[w] # workers[w])
                 => /\ workers'[w].pc = "cancelled"
                    /\ workers'[w].sent = workers[w].sent
                    /\ image_chan' = image_chan
          /\ workers[w].pc = "cancelled"
                 => /\ workers'[w] = workers[w]
                    /\ FinishedAt(w) = {} ]_vars

\* a worker returned on a cancellation signal with its result unsent
C3_Witness ==
    \E w \in DOMAIN workers :
        /\ workers[w].pc = "cancelled"
        /\ IsAsset(workers[w].data)
        /\ workers[w].images # <<>>

\* C4: the messages of each scan are received by the pump in the order
\* their worker sent them, which for the assets is the order of the
\* candidate list, and the identifiers waiting in to_spawn are those of the
\* assets received in this tick, in the order received.
C4_IngestedInSendOrder ==
    /\ \A w \in DOMAIN workers :
           /\ IsPrefix(OfScan(ingest_log, w), workers[w].sent)
           /\ LET assets == SelectSeq(workers[w].sent, IsAsset)
              IN  \A i, j \in 1..Len(assets) :
                      i < j => PosIn(workers[w].listed, assets[i].path)
                                 < PosIn(workers[w].listed, assets[j].path)
    /\ mainpc \in {"process", "spawn"} => to_spawn = AssetIds(tick_popped)

\* the pump has received two assets and the Finished of one scan
C4_Witness ==
    \E w \in DOMAIN workers :
        /\ Len(OfScan(ingest_log, w)) = 3
        /\ OfScan(ingest_log, w)[1].path # OfScan(ingest_log, w)[2].path

\* what C5 asks of a tick that has reached its render step: the messages
\* that were in the channel when the tick began have all been received,
\* each asset among them is in the cache under the hash of its path, and
\* loading is clear if Finished was among them
TickStartDrained ==
    /\ IsPrefix(tick_start.chan, tick_popped)
    /\ \A i \in 1..Len(tick_start.chan) :
           LET msg == tick_start.chan[i]
           IN  IF IsAsset(msg)
               THEN /\ PathHash(msg.path) \in DOMAIN textures
                    /\ textures[PathHash(msg.path)].path = msg.path
               ELSE ~loading

C6_FirstWriterWins ==
    [][ \A id \in DOMAIN textures :
          id \in DOMAIN textures' /\ textures'[id] = textures[id] ]_vars

\* C7: when the spawn step runs, to_spawn holds the identifiers the drain
\* step pushed in this tick; the step creates one entity per element, in
\* order, carrying the element as its id, keeps the earlier entities, and
\* leaves to_spawn empty.
C7_OneEntityPerPending ==
    [][ mainpc = "spawn" =>
          /\ to_spawn = AssetIds(tick_popped)
          /\ mainpc' = "render" =>
                /\ to_spawn' = <<>>
                /\ Len(entities') = Len(entities) + Len(to_spawn)
                /\ \A i \in 1..Len(entities) : entities'[i] = entities[i]
                /\ \A i \in 1..Len(to_spawn) :
                       entities'[Len(entities) + i].id = to_spawn[i] ]_vars

\* the spawn step of a tick that received two assets has run
C7_Witness ==
    /\ mainpc = "render"
    /\ Len(AssetIds(tick_popped)) = 2
    /\ to_spawn = <<>>
    /\ Len(entities) >= 2
    /\ entities[Len(entities)].id = AssetIds(tick_popped)[2]

--------------------------------------------------------------------------
(* Properties of GifFrameDelay, checked under SpecDelay *)

\* C8: for a non-empty delay list, get_delay of every index of the list
\* returns the delay the list has at that index.
C8_RoundTrip ==
    (gd_pc = "asked" /\ gd_delays # <<>> /\ gd_frame < Len(gd_delays))
        => gd_out = gd_delays[gd_frame + 1]

\* an index past a change of delay was asked for
C8_Witness ==
    /\ gd_pc = "asked"
    /\ Len(gd_delays) >= 3
    /\ gd_frame = 2
    /\ gd_delays[2] # gd_delays[3]
    /\ gd_delays[1] # gd_delays[3]

\* C9: the ranges of the map built from a list of n delays are non-empty,
\* pairwise disjoint, end at or before n, and every index below n lies in
\* exactly one of them.
C9_RangesPartition ==
    gd_pc # "input" =>
        LET n == Len(gd_delays)
        IN  /\ \A k \in DOMAIN gd_map : k[1] < k[2] /\ k[2] <= n
            /\ \A k1, k2 \in DOMAIN gd_map :
                   k1 # k2 => (k1[2] <= k2[1] \/ k2[2] <= k1[1])
            /\ \A i \in 0..(n - 1) :
                   Cardinality({k \in DOMAIN gd_map :
                                   RangeContains(k, i)}) = 1

\* a map of three ranges was built
C9_Witness ==
    /\ gd_pc = "built"
    /\ Cardinality(DOMAIN gd_map) = 3

\* two neighbours of the list are equal
HasAdjacentEqual(delays) ==
    \E i \in 1..(Len(delays) - 1) : delays[i] = delays[i + 1]

\* C10: a list with two equal neighbours yields fewer ranges than frames.
C10_FewerRangesThanFrames ==
    (gd_pc # "input" /\ HasAdjacentEqual(gd_delays))
        => Cardinality(DOMAIN gd_map) < Len(gd_delays)

\* a list with equal neighbours and a change of delay was built
C10_Witness ==
    /\ gd_pc = "built"
    /\ HasAdjacentEqual(gd_delays)
    /\ Cardinality(DOMAIN gd_map) >= 2


\* C11: get_delay returns Duration::ZERO for every frame index at or past
\* the end of the delay list the map was built from; for the empty list
\* that is every index.
C11_ZeroOutOfRange ==
    (gd_pc = "asked" /\ gd_frame >= Len(gd_delays)) => gd_out = 0

\* the first index past a list of non-zero delays was asked for
C11_Witness ==
    /\ gd_pc = "asked"
    /\ Len(gd_delays) >= 2
    /\ \A i \in 1..Len(gd_delays) : gd_delays[i] > 0
    /\ gd_frame = Len(gd_delays)
    /\ gd_out = 0


\* C12: every Gif message has frames_per_row * frame width within
\* MAX_TEXTURE_WIDTH, and total_rows * frame height within
\* MAX_TEXTURE_HEIGHT unless it is the single-frame fallback.
C12_AtlasWithinLimits ==
    lg_pc = "done" =>
        /\ lg_msg.type = "Gif"
        /\ lg_msg.frames_per_row * lg_msg.frame_size[1] <= MAX_TEXTURE_WIDTH
        /\ \/ lg_msg.total_rows * lg_msg.frame_size[2] <= MAX_TEXTURE_HEIGHT
           \/ /\ lg_msg.total_frames = 1
              /\ lg_msg.frames_per_row = 1
              /\ lg_msg.total_rows = 1

\* an atlas of several full rows that comes close to the height limit
C12_Witness ==
    /\ lg_pc = "done"
    /\ lg_msg.total_frames > lg_msg.frames_per_row
    /\ lg_msg.total_rows >= 7
    /\ lg_msg.total_frames = Len(lg_gif.frames)
    /\ lg_msg.total_rows * lg_msg.frame_size[2] > MAX_TEXTURE_HEIGHT - 1080


\* C13: a Gif message decoded from a file whose grid would be taller than
\* MAX_TEXTURE_HEIGHT (frame_height * total_rows, as load_gif computes
\* them) is the single-frame fallback: total_frames, frames_per_row and
\* total_rows are 1 and there is one delay; the worker that built it has
\* not ended in it; and the cache entry made from it has frame count 1.
C13_FallbackIsSingleFrame ==
    LET TooTall(m) ==
            /\ m.type = "Gif"
            /\ m.frame_size[2]
                   * TotalRows(m.decoded_frames, FramesPerRow(m.frame_size[1]))
                 > MAX_TEXTURE_HEIGHT
        Single(m) ==
            /\ m.total_frames = 1
            /\ m.frames_per_row = 1
            /\ m.total_rows = 1
            /\ Len(m.frame_delay) = 1
    IN  /\ \A w \in 1..Len(workers) :
               /\ \A i \in 1..Len(workers[w].sent) :
                      TooTall(workers[w].sent[i]) => Single(workers[w].sent[i])
               /\ TooTall(workers[w].data) =>
                      /\ Single(workers[w].data)
                      /\ workers[w].pc \in {"poll", "send", "cancelled"}
                      /\ ~workers[w].failed
        /\ \A i \in 1..Len(ingest_log) :
               (/\ TooTall(ingest_log[i])
                /\ \A j \in (i + 1)..Len(ingest_log) :
                       ingest_log[j].path # ingest_log[i].path)
               => /\ PathHash(ingest_log[i].path) \in DOMAIN textures
                  /\ textures[PathHash(ingest_log[i].path)].total_frames = 1

\* a worker sent the fallback of a 64-frame GIF, then its next candidate,
\* and the fallback is in the cache with one frame
C13_Witness ==
    \E w \in 1..Len(workers) :
        /\ Len(workers[w].sent) >= 2
        /\ workers[w].sent[1].type = "Gif"
        /\ workers[w].sent[1].decoded_frames = 64
        /\ workers[w].sent[1].total_frames = 1
        /\ workers[w].sent[2].type = "Image"
        /\ PathHash(workers[w].sent[1].path) \in DOMAIN textures
        /\ textures[PathHash(workers[w].sent[1].path)].total_frames = 1
        /\ textures[PathHash(workers[w].sent[1].path)].kind = "Gif"

\* C15: once one file of a worker failed to open or decode, the worker
\* sends nothing more, neither an asset nor Finished; and as long as no
\* cancellation was requested and no Finished of another scan was
\* received, loading stays true.
C15_DecodeFailureIsFatal ==
    /\ [][\A w \in 1..Len(workers) :
              workers[w].failed => workers'[w].sent = workers[w].sent]_vars
    /\ [](\A w \in 1..Len(workers) :
              workers[w].failed =>
                  \A i \in 1..Len(workers[w].sent) :
                      workers[w].sent[i].type # "Finished")
    /\ []((/\ \E w \in 1..Len(workers) : workers[w].failed
           /\ kill_chan = <<>>
           /\ \A w \in 1..Len(workers) : workers[w].pc # "cancelled"
           /\ \A i \in 1..Len(ingest_log) :
                  ingest_log[i].type # "Finished")
          => loading)

\* a worker failed on its second file; its first asset was received and
\* spawned in a finished tick, nothing is in flight, loading is still set
C15_Witness ==
    /\ \E w \in 1..Len(workers) :
           /\ workers[w].failed
           /\ Len(workers[w].listed) = 2
           /\ Len(workers[w].sent) = 1
    /\ mainpc = "idle"
    /\ image_chan = <<>>
    /\ Len(entities) = 1
    /\ kill_chan = <<>>
    /\ loading


\* C14: the candidate list holds exactly the listed children that are
\* regular files with extension jpg, png or gif in that exact spelling,
\* in listing order, each once.
C14_CandidatesAreSupportedFiles ==
    LET Wanted(e) == e.is_file /\ e.ext \in {"jpg", "png", "gif"}
        At(e) == CHOOSE j \in 1..Len(sc_entries) : sc_entries[j] = e
    IN  sc_pc = "scanned" =>
            /\ \A i \in 1..Len(sc_images) :
                   /\ Wanted(sc_images[i])
                   /\ \E j \in 1..Len(sc_entries) :
                          sc_entries[j] = sc_images[i]
            /\ \A j \in 1..Len(sc_entries) :
                   Wanted(sc_entries[j]) =>
                       \E i \in 1..Len(sc_images) :
                           sc_images[i] = sc_entries[j]
            /\ \A i, k \in 1..Len(sc_images) :
                   i < k => /\ sc_images[i] # sc_images[k]
                            /\ At(sc_images[i]) < At(sc_images[k])

\* a listing with an upper-case JPG, a directory and two supported files
\* listed gif first
C14_Witness ==
    /\ sc_pc = "scanned"
    /\ Len(sc_entries) = 3
    /\ \E j \in 1..3 : sc_entries[j].ext \in {"JPG", ""}
    /\ Len(sc_images) = 2
    /\ sc_images[1].ext = "gif"
    /\ sc_images[2].ext = "jpg"

\* C19 as stated: for a directory holding only a .txt file the scan yields
\* no candidate and spawns no worker thread.
C19_NoWorkerForTextOnly ==
    (/\ sc_pc = "scanned"
     /\ Len(sc_entries) = 1
     /\ sc_entries[1].ext = "txt")
    => /\ sc_images = <<>>
       /\ sc_workers = <<>>

\* C19 amended: for a directory holding only a .txt file the scan yields
\* no candidate, and it still spawns one worker thread, which is given the
\* empty candidate list.
C19_WorkerSpawnedWithoutCandidates ==
    (/\ sc_pc = "scanned"
     /\ Len(sc_entries) = 1
     /\ sc_entries[1].ext = "txt")
    => /\ sc_images = <<>>
       /\ Len(sc_workers) = 1
       /\ sc_workers[1].images = <<>>
       /\ sc_workers[1].pc = "loop"

\* the scan of a directory holding only a .txt file has run
C19_Witness ==
    /\ sc_pc = "scanned"
    /\ sc_entries = <<[path |-> 3, ext |-> "txt", is_file |-> TRUE]>>
    /\ sc_workers # <<>>


\* C17: one scan whose only candidate is a PNG, decoded and sent, the
\* worker finished and its Finished received by the pump: the cache holds
\* exactly the entry of that file, exactly one identifier was queued for
\* spawn (it is still queued or has become the one entity), and loading
\* is false.
C17_OnePngScenario ==
    (/\ Len(workers) = 1
     /\ Len(workers[1].listed) = 1
     /\ workers[1].listed[1].ext = "png"
     /\ workers[1].pc = "done"
     /\ \E i \in 1..Len(ingest_log) : ingest_log[i].type = "Finished")
    => /\ DOMAIN textures = {PathHash(workers[1].listed[1].path)}
       /\ Len(SelectSeq(ingest_log, LAMBDA m : m.type # "Finished")) = 1
       /\ Len(to_spawn) + Len(entities) = 1
       /\ \A i \in 1..Len(to_spawn) :
              to_spawn[i] = PathHash(workers[1].listed[1].path)
       /\ ~loading

\* the drain of the one-PNG scan has just ended: Finished received, one
\* identifier waiting in the spawn queue
C17_Witness ==
    /\ Len(workers) = 1
    /\ Len(workers[1].listed) = 1
    /\ workers[1].listed[1].ext = "png"
    /\ workers[1].pc = "done"
    /\ \E i \in 1..Len(ingest_log) : ingest_log[i].type = "Finished"
    /\ mainpc = "spawn"
    /\ Len(to_spawn) = 1
    /\ Cardinality(DOMAIN textures) = 1

\* C18: the scan of a directory without candidates sets loading; while it
\* is the only scan nothing is inserted into the cache, uploaded, queued
\* for spawn or spawned; and loading becomes false again.
C18_EmptyDirectoryScenario ==
    /\ [][(workers = <<>> /\ workers' # <<>>) => loading']_vars
    /\ []((Len(workers) = 1 /\ workers[1].listed = <<>>)
              => /\ textures = EmptyMap
                 /\ uploads = 0
                 /\ to_spawn = <<>>
                 /\ entities = <<>>)
    /\ (Len(workers) = 1 /\ workers[1].listed = <<>> /\ loading)
           ~> (~loading \/ Len(workers) > 1)

\* the empty scan completed without a cancellation: its Finished was
\* received, loading is false again, the cache is empty
C18_Witness ==
    /\ Len(workers) = 1
    /\ workers[1].listed = <<>>
    /\ workers[1].pc = "done"
    /\ kill_chan = <<>>
    /\ \E i \in 1..Len(ingest_log) : ingest_log[i].type = "Finished"
    /\ ~loading
    /\ textures = EmptyMap
    /\ mainpc = "idle"


\* C20 as stated: the GifFrameDelay built from the delays 100, 100, 200,
\* 200, ... of a 10-frame GIF has at most 2 ranges, and every frame index
\* 0..9 lies in one of them.
C20_AtMostTwoRanges ==
    (gd_pc # "input" /\ gd_delays = AlternatingDelays)
    => /\ Cardinality(DOMAIN gd_map) <= 2
       /\ \A frame \in 0..9 :
              \E k \in DOMAIN gd_map : k[1] <= frame /\ frame < k[2]

\* C20 amended: that GifFrameDelay has exactly 5 ranges, one for each run
\* of equal delays: 0..2, 2..4, 4..6, 6..8 and 8..10, carrying the delay
\* of their run; every frame index 0..9 lies in exactly one of them.
C20_OneRangePerRun ==
    (gd_pc # "input" /\ gd_delays = AlternatingDelays)
    => /\ DOMAIN gd_map = {<<0, 2>>, <<2, 4>>, <<4, 6>>, <<6, 8>>, <<8, 10>>}
       /\ \A k \in DOMAIN gd_map : gd_map[k] = AlternatingDelays[k[1] + 1]
       /\ \A frame \in 0..9 :
              Cardinality({k \in DOMAIN gd_map :
                              k[1] <= frame /\ frame < k[2]}) = 1

\* the map of the alternating 10-frame list has been built
C20_Witness ==
    /\ gd_pc = "built"
    /\ gd_delays = AlternatingDelays
    /\ Len(gd_delays) = 10
    /\ Cardinality(DOMAIN gd_map) = 5


\* C21: a step of a load_images thread (some existing worker changes)
\* leaves Storage.textures, Storage.to_spawn and Storage.loading as they
\* are; of the channels it at most takes the oldest cancellation signal
\* and appends one message to the forward channel; and the cache changes
\* only in a step of the pump, on the main thread.
C21_WorkerLeavesStorageAlone ==
    [][ /\ (Len(workers') = Len(workers) /\ workers' # workers)
           => /\ textures' = textures
              /\ to_spawn' = to_spawn
              /\ loading' = loading
              /\ kill_chan' = kill_chan \/ (kill_chan # <<>> /\ kill_chan' = Tail(kill_chan))
              /\ \/ image_chan' = image_chan
                 \/ /\ Len(image_chan') = Len(image_chan) + 1
                    /\ SubSeq(image_chan', 1, Len(image_chan)) = image_chan
        /\ (textures' # textures \/ to_spawn' # to_spawn)
           => (mainpc \in {"process", "spawn"} /\ workers' = workers)
      ]_vars

\* a worker is about to send its second message while the pump is in the
\* middle of a drain and the cache already holds an entry
C21_Witness ==
    /\ mainpc = "process"
    /\ textures # EmptyMap
    /\ to_spawn # <<>>
    /\ loading
    /\ image_chan # <<>>
    /\ \E w \in 1..Len(workers) :
           /\ workers[w].pc = "loop"
           /\ Len(workers[w].sent) = 2


\* C22: for every GIF with at least one frame and capped frame width w,
\* the grid load_gif computes has frames_per_row = floor(8192 / w) and
\* total_rows = ceil(frame_count / frames_per_row): total_rows rows hold
\* all frames and total_rows - 1 rows do not.
C22_RowsAreCeiling ==
    lg_pc = "done" =>
        LET frame_count    == Len(lg_gif.frames)
            frame_width    == FrameSize(lg_gif.width, lg_gif.height)[1]
            frames_per_row == FramesPerRow(frame_width)
            total_rows     == TotalRows(frame_count, frames_per_row)
        IN  /\ frames_per_row * frame_width <= MAX_TEXTURE_WIDTH
            /\ (frames_per_row + 1) * frame_width > MAX_TEXTURE_WIDTH
            /\ total_rows * frames_per_row >= frame_count
            /\ (total_rows - 1) * frames_per_row < frame_count
            /\ (lg_msg.total_frames = frame_count /\ frame_count > 1)
                   => lg_msg.total_rows = total_rows


\* C23: with the worker and the tick scheduled fairly and no cancellation,
\* a scan whose candidates all decode ends with loading false; once it is
\* false the cache holds an entry for every candidate path, and the tick
\* that cleared it ends with to_spawn empty.
C23_ScanCompletes ==
    /\ (Len(workers) = 1 /\ loading)
           ~> (~loading \/ workers[1].failed \/ Len(workers) > 1)
    /\ []((Len(workers) = 1 /\ ~workers[1].failed /\ ~loading)
              => /\ \A i \in 1..Len(workers[1].listed) :
                        PathHash(workers[1].listed[i].path) \in DOMAIN textures
                 /\ mainpc \in {"render", "idle"} => to_spawn = <<>>)

\* a scan of two candidates has completed: both are in the cache and
\* spawned, loading is false, the tick is over
C23_Witness ==
    /\ Len(workers) = 1
    /\ Len(workers[1].listed) = 2
    /\ ~workers[1].failed
    /\ workers[1].pc = "done"
    /\ ~loading
    /\ Cardinality(DOMAIN textures) = 2
    /\ Len(entities) = 2
    /\ to_spawn = <<>>
    /\ mainpc = "idle"


\* C24: a scan is cancelled only by a _stop_loading called while it is in
\* flight.  _stop_loading also clears loading and only sys_load_path sets
\* it, so the worker of the latest scan is never found cancelled with
\* loading still set: that worker would have taken a signal sent before
\* its scan began.
C24_NoStaleCancellation ==
    (workers # <<>> /\ workers[Len(workers)].pc = "cancelled") => ~loading

\* C25: after _stop_loading and a new scan the pump never inserts an asset
\* of the stopped scan: it never receives an asset message of a scan
\* whose worker has already been cancelled.
C25_NoLeakFromStoppedScan ==
    [][Len(ingest_log') = Len(ingest_log) + 1
           => LET msg == ingest_log'[Len(ingest_log')]
              IN  msg.type \in {"Image", "Gif"}
                      => workers[msg.scan].pc # "cancelled"]_vars


\* C26: every identifier in to_spawn is a key of Storage.textures, in
\* every state, so also whenever sys_spawn_new_images looks it up.
C26_PendingAreCached ==
    \A i \in 1..Len(to_spawn) : to_spawn[i] \in DOMAIN textures

\* the spawn step is about to run on two pending identifiers
C26_Witness ==
    /\ mainpc = "spawn"
    /\ Len(to_spawn) = 2
    /\ to_spawn[1] # to_spawn[2]
    /\ {to_spawn[1], to_spawn[2]} = DOMAIN textures

\* C27: the entities carry the layout indices 0, 1, 2, ... in creation
\* order, which is the order in which the pump received their assets, and
\* LayoutManager.image_count is the number of entities.
C27_IndicesInIngestOrder ==
    /\ image_count = Len(entities)
    /\ Len(entities) <= Len(AssetIds(ingest_log))
    /\ \A i \in 1..Len(entities) :
           /\ entities[i].index = i - 1
           /\ entities[i].id = AssetIds(ingest_log)[i]

\* two assets received in one tick have become the entities 0 and 1
C27_Witness ==
    /\ Len(entities) = 2
    /\ entities[1].id # entities[2].id
    /\ entities[2].index = 1
    /\ image_count = 2
    /\ mainpc = "render"
    /\ Len(tick_popped) >= 2


\* C28: the playback index of a GIF entity starts at 0 and stays within
\* 0 .. total_frames - 1 after any number of sys_tick_gifs runs; it changes
\* only in a tick whose accumulated time exceeds the delay of the frame
\* shown, and then to the next index, or to 0 from the last one.
C28_FrameWithinTotal ==
    /\ [](/\ gt_entity.frame >= 0
          /\ gt_entity.frame < gt_entity.total_frames
          /\ gt_ticks = 0 => gt_entity.frame = 0)
    /\ [][gt_entity'.frame # gt_entity.frame
              => /\ \E delay \in GetDelay(gt_entity.delay, gt_entity.frame) :
                        gt_entity.acc + gt_delta' > delay
                 /\ \/ gt_entity'.frame = gt_entity.frame + 1
                    \/ /\ gt_entity'.frame = 0
                       /\ gt_entity.frame + 1 = gt_entity.total_frames]_vars

\* a three-frame GIF has played through and wrapped back to frame 0
C28_Witness ==
    /\ gt_entity.total_frames = 3
    /\ gt_entity.frame = 0
    /\ gt_ticks >= 3
    /\ gt_entity.acc = 0
    /\ gt_delta > 0


\* C29: every Gif message has total_frames >= 1 and exactly total_frames
\* delays, whether it is an atlas or the single-frame fallback; so the
\* GifFrameDelay built from its delays has a range for every frame index
\* below total_frames.
C29_OneDelayPerFrame ==
    lg_pc = "done" =>
        /\ lg_msg.type = "Gif"
        /\ lg_msg.total_frames >= 1
        /\ Len(lg_msg.frame_delay) = lg_msg.total_frames
        /\ \A frame \in 0..(lg_msg.total_frames - 1) :
               \E k \in DOMAIN FromDurations(lg_msg.frame_delay) :
                   k[1] <= frame /\ frame < k[2]

\* an atlas of many frames whose delays form several ranges
C29_Witness ==
    /\ lg_pc = "done"
    /\ lg_msg.total_frames >= 20
    /\ Len(lg_msg.frame_delay) = lg_msg.total_frames
    /\ Cardinality(DOMAIN FromDurations(lg_msg.frame_delay)) >= 10

\* C30: on the atlas path frame i goes to the cell (i % frames_per_row,
\* i / frames_per_row); its column is below frames_per_row and its row
\* below total_rows, so the cell lies within the atlas of
\* frame_width * frames_per_row by frame_height * total_rows pixels, which
\* is within the texture limits; two different frames never get one cell.
C30_CellsInsideAtlas ==
    (lg_pc = "done" /\ lg_msg.frame_delay # <<FallbackDelay>>) =>
        LET cell(i) == CellOf(i, lg_msg.frames_per_row)
            frames  == 0..(lg_msg.total_frames - 1)
        IN  /\ \A i \in frames :
                   /\ cell(i)[1] < lg_msg.frames_per_row
                   /\ cell(i)[2] < lg_msg.total_rows
                   /\ (cell(i)[1] + 1) * lg_msg.frame_size[1]
                          <= MAX_TEXTURE_WIDTH
                   /\ (cell(i)[2] + 1) * lg_msg.frame_size[2]
                          <= MAX_TEXTURE_HEIGHT
            /\ \A i, j \in frames : i # j => cell(i) # cell(j)

\* an atlas whose last row is full: the frame count is a multiple of
\* frames_per_row, and there are several rows
C30_Witness ==
    /\ lg_pc = "done"
    /\ lg_msg.frame_delay # <<FallbackDelay>>
    /\ lg_msg.total_frames = 4 * lg_msg.frames_per_row
    /\ CellOf(lg_msg.total_frames - 1, lg_msg.frames_per_row)
           = <<lg_msg.frames_per_row - 1, 3>>

==========================================================================
